---------------------------- MODULE Spec2Model ----------------------------
(***************************************************************************)
(* Model of the teapot volunteer-opportunity pipeline:                     *)
(*   process_oportunities.py  - ingestion batch, normalizer, index rebuild *)
(*   app.py                   - raw submission, intent match query         *)
(*                                                                         *)
(* Text is modelled as a sequence of one-character strings, so that        *)
(* str.strip, str.lower, slicing, substring tests and string ordering are  *)
(* computed as Python computes them.                                       *)
(***************************************************************************)
EXTENDS Integers, Sequences, FiniteSets, TLC

(***************************************************************************)
(* Python str helpers                                                      *)
(***************************************************************************)

\* Characters in code point order (the order Python compares str by).
Chars ==
  << "\n", " ", "!", "-", ".",
     "0", "1", "2", "3", "4", "5", "6", "7", "8", "9",
     "A", "B", "C", "D", "E", "F", "G", "H", "I", "J", "K", "L", "M",
     "N", "O", "P", "Q", "R", "S", "T", "U", "V", "W", "X", "Y", "Z",
     "a", "b", "c", "d", "e", "f", "g", "h", "i", "j", "k", "l", "m",
     "n", "o", "p", "q", "r", "s", "t", "u", "v", "w", "x", "y", "z" >>

CharSet == {Chars[i] : i \in 1..Len(Chars)}
Ord == [c \in CharSet |-> CHOOSE i \in 1..Len(Chars) : Chars[i] = c]

\* ord(c), as the rank of c among the characters
CodePoint(c) == Ord[c]

Whitespace == {"\n", " "}

Digits == <<"0", "1", "2", "3", "4", "5", "6", "7", "8", "9">>

IsUpper(c)  == CodePoint(c) >= CodePoint("A") /\ CodePoint(c) <= CodePoint("Z")
IsLowerOrDigit(c) ==
  \/ CodePoint(c) >= CodePoint("a") /\ CodePoint(c) <= CodePoint("z")
  \/ CodePoint(c) >= CodePoint("0") /\ CodePoint(c) <= CodePoint("9")

\* str.lower() on one character
LowerOf ==
  [c \in CharSet |->
     IF IsUpper(c) THEN Chars[CodePoint(c) + (CodePoint("a") - CodePoint("A"))] ELSE c]
LowerChar(c) == LowerOf[c]

\* str.lower()
Lower(s) == [i \in 1..Len(s) |-> LowerChar(s[i])]

\* s[:n]
Take(s, n) == SubSeq(s, 1, IF Len(s) < n THEN Len(s) ELSE n)

\* str.strip(chars): drop leading and trailing characters of the set W
StripChars(s, W) ==
  LET keep == {i \in 1..Len(s) : s[i] \notin W}
  IN  IF keep = {} THEN <<>>
      ELSE SubSeq(s, CHOOSE i \in keep : \A j \in keep : i <= j,
                     CHOOSE i \in keep : \A j \in keep : j <= i)

\* str.strip()
Strip(s) == StripChars(s, Whitespace)

\* a in b, for str
IsSubstr(a, b) ==
  \E i \in 0..(Len(b) - Len(a)) : SubSeq(b, i + 1, i + Len(a)) = a

\* a < b, for str
StrLess(a, b) ==
  \E p \in 1..Len(b) :
    /\ \A i \in 1..(p - 1) : i <= Len(a) /\ a[i] = b[i]
    /\ \/ p = Len(a) + 1
       \/ p <= Len(a) /\ CodePoint(a[p]) < CodePoint(b[p])

\* x in seq, for list
InSeq(x, seq) == \E i \in 1..Len(seq) : seq[i] = x

\* the elements of s at the positions K, in order
Pick(s, K) ==
  [k \in 1..Cardinality(K) |->
     s[CHOOSE i \in K : Cardinality({j \in K : j <= i}) = k]]

\* str(n) for a natural number
RECURSIVE Decimal(_)
Decimal(n) ==
  IF n < 10 THEN <<Digits[n + 1]>>
  ELSE Decimal(n \div 10) \o <<Digits[(n % 10) + 1]>>

\* sorted(seq, key=...): stable sort; less[i, j] tells whether the key of
\* seq[i] is smaller than the key of seq[j]
StableSort(seq, less) ==
  LET n == Len(seq)
      before(i, j) == less[i, j] \/ (~less[j, i] /\ i < j)
      rank(i) == Cardinality({j \in 1..n : before(j, i)}) + 1
  IN  [k \in 1..n |-> seq[CHOOSE i \in 1..n : rank(i) = k]]


(***************************************************************************)
(* JSON / Python values.  A value carries its type tag t and payload v:    *)
(* null (None), str, int, list (of values), dict (the four keys the code   *)
(* reads; a key that is absent reads as None through dict.get).            *)
(***************************************************************************)

JNull    == [t |-> "null", v |-> 0]
JStr(s)  == [t |-> "str",  v |-> s]
JInt(n)  == [t |-> "int",  v |-> n]
JList(l) == [t |-> "list", v |-> l]
JDict(d) == [t |-> "dict", v |-> d]

\* bool(x)
Truthy(j) ==
  CASE j.t = "null" -> FALSE
    [] j.t = "int"  -> j.v # 0
    [] j.t = "str"  -> j.v # <<>>
    [] j.t = "list" -> j.v # <<>>
    [] j.t = "dict" -> TRUE

\* str(x), for the str, int and None items the inputs contain
PyStr(j) ==
  CASE j.t = "str"  -> j.v
    [] j.t = "int"  -> Decimal(j.v)
    [] j.t = "null" -> <<"N", "o", "n", "e">>

\* the items a for loop over x visits (str: its characters); an int is not
\* iterable
Iterable(j) == j.t \in {"list", "str"}
Items(j) ==
  IF j.t = "str" THEN [i \in 1..Len(j.v) |-> JStr(<<j.v[i]>>)] ELSE j.v

(***************************************************************************)
(* Vocabulary loading                                                      *)
(***************************************************************************)

\* A vocabulary file on disk: missing, or its text: blank, not JSON, or JSON.
FileMissing    == [kind |-> "missing",    data |-> JNull]
FileBlank      == [kind |-> "blank",      data |-> JNull]
FileUnparsable == [kind |-> "unparsable", data |-> JNull]
FileJson(j)    == [kind |-> "json",       data |-> j]

\* [strip(str(item)) for item in data if strip(str(item))]
RECURSIVE CleanItems(_)
CleanItems(items) ==
  IF items = <<>> THEN <<>>
  ELSE LET value == Strip(PyStr(Head(items)))
       IN  (IF value # <<>> THEN <<value>> ELSE <<>>) \o CleanItems(Tail(items))

Raised == [ok |-> FALSE, list |-> <<>>]
Loaded(l) == [ok |-> TRUE, list |-> l]

\* load_reference_list, had it taken text that is not JSON for an empty list
load_reference_list_lenient(file) ==
  CASE file.kind = "missing"    -> Raised
    [] file.kind = "blank"      -> Loaded(<<>>)
    [] file.kind = "unparsable" -> Loaded(<<>>)
    [] file.kind = "json"       ->
         IF file.data.t # "list" THEN Raised
         ELSE Loaded(CleanItems(file.data.v))

\* process_oportunities.load_reference_list: ok = FALSE when it raises
load_reference_list(file) ==
  CASE file.kind = "missing"    -> Raised
    [] file.kind = "blank"      -> Loaded(<<>>)
    [] file.kind = "unparsable" -> Raised
    [] file.kind = "json"       ->
         IF file.data.t # "list" THEN Raised
         ELSE Loaded(CleanItems(file.data.v))

\* app.load_json_list: ok = FALSE when iterating the parsed data raises
load_json_list(file) ==
  CASE file.kind = "missing"    -> Loaded(<<>>)
    [] file.kind = "blank"      -> Loaded(<<>>)
    [] file.kind = "unparsable" -> Loaded(<<>>)
    [] file.kind = "json"       ->
         IF ~Iterable(file.data) THEN Raised
         ELSE Loaded(CleanItems(Items(file.data)))

(***************************************************************************)
(* The processing graph: extract -> normalize                              *)
(***************************************************************************)

FallbackLimit     == 400
DescriptionLimit  == 800
ExcerptLimit      == 1200
Placeholder ==
  << "D", "e", "s", "c", "r", "i", "p", "t", "i", "o", "n", " ",
     "u", "n", "a", "v", "a", "i", "l", "a", "b", "l", "e", "." >>
ModelName == "gpt-5.1"

\* {term.lower(): term for term in allowed}: a dict in insertion order; a
\* repeated key keeps its position and takes the later value
RECURSIVE lower_map(_)
lower_map(allowed) ==
  IF allowed = <<>> THEN <<>>
  ELSE LET m    == lower_map(SubSeq(allowed, 1, Len(allowed) - 1))
           term == allowed[Len(allowed)]
           hit  == {i \in 1..Len(m) : m[i].key = Lower(term)}
       IN  IF hit = {} THEN Append(m, [key |-> Lower(term), value |-> term])
           ELSE [i \in 1..Len(m) |->
                   IF i \in hit THEN [key |-> m[i].key, value |-> term] ELSE m[i]]

NoMatch  == [found |-> FALSE, value |-> <<>>]
Match(x) == [found |-> TRUE,  value |-> x]

\* _match_token, had it taken the last key that contains or is contained
match_token_last(token, allowed_map) ==
  LET tok   == Lower(Strip(token))
      exact == {i \in 1..Len(allowed_map) : allowed_map[i].key = tok}
      fuzzy == {i \in 1..Len(allowed_map) :
                  IsSubstr(tok, allowed_map[i].key) \/ IsSubstr(allowed_map[i].key, tok)}
  IN  IF tok = <<>> \/ allowed_map = <<>> THEN NoMatch
      ELSE IF exact # {} THEN Match(allowed_map[CHOOSE i \in exact : TRUE].value)
      ELSE IF fuzzy # {}
             THEN Match(allowed_map[CHOOSE i \in fuzzy : \A j \in fuzzy : i >= j].value)
      ELSE NoMatch

\* _match_token, had it compared the token in the case it came in
match_token_cased(token, allowed_map) ==
  LET tok   == Strip(token)
      exact == {i \in 1..Len(allowed_map) : allowed_map[i].key = tok}
      fuzzy == {i \in 1..Len(allowed_map) :
                  IsSubstr(tok, allowed_map[i].key) \/ IsSubstr(allowed_map[i].key, tok)}
  IN  IF tok = <<>> \/ allowed_map = <<>> THEN NoMatch
      ELSE IF exact # {} THEN Match(allowed_map[CHOOSE i \in exact : TRUE].value)
      ELSE IF fuzzy # {}
             THEN Match(allowed_map[CHOOSE i \in fuzzy : \A j \in fuzzy : i <= j].value)
      ELSE NoMatch

\* _match_token
match_token(token, allowed_map) ==
  LET tok   == Lower(Strip(token))
      exact == {i \in 1..Len(allowed_map) : allowed_map[i].key = tok}
      fuzzy == {i \in 1..Len(allowed_map) :
                  IsSubstr(tok, allowed_map[i].key) \/ IsSubstr(allowed_map[i].key, tok)}
  IN  IF tok = <<>> \/ allowed_map = <<>> THEN NoMatch
      ELSE IF exact # {} THEN Match(allowed_map[CHOOSE i \in exact : TRUE].value)
      ELSE IF fuzzy # {}
             THEN Match(allowed_map[CHOOSE i \in fuzzy : \A j \in fuzzy : i <= j].value)
      ELSE NoMatch

\* the loop of _filter_list over the items
RECURSIVE filter_items(_, _)
filter_items(items, allowed_map) ==
  IF items = <<>> THEN <<>>
  ELSE LET filtered == filter_items(SubSeq(items, 1, Len(items) - 1), allowed_map)
           text     == Strip(PyStr(items[Len(items)]))
           match    == match_token(text, allowed_map)
       IN  IF match.found /\ match.value # <<>> /\ ~InSeq(match.value, filtered)
             THEN Append(filtered, match.value)
             ELSE filtered

\* _filter_list: ok = FALSE when the for loop raises TypeError
filter_list(values, allowed_map) ==
  IF ~Truthy(values) THEN Loaded(<<>>)
  ELSE IF ~Iterable(values) THEN Raised
  ELSE Loaded(filter_items(Items(values), allowed_map))

\* What llm.invoke / json.loads can produce for one item.
TransportError  == [kind |-> "transport_error", data |-> JNull]
NotJson         == [kind |-> "not_json",        data |-> JNull]
Parsed(j)       == [kind |-> "json",            data |-> j]

Candidate(title, description, skills, interests) ==
  [title |-> title, description |-> description,
   skills |-> skills, interests |-> interests]

ExtractionFailed(outcome) ==
  outcome.kind # "json" \/ outcome.data.t # "dict"

\* extract_opportunity with the excerpt length of the normalizer in the fallback
extract_opportunity_long(file_name, raw_text_in, outcome) ==
  LET raw_text == Strip(raw_text_in)
  IN  IF ExtractionFailed(outcome)
        THEN Candidate(JStr(file_name), JStr(Take(raw_text, DescriptionLimit)),
                       JList(<<>>), JList(<<>>))
        ELSE outcome.data.v

\* extract_opportunity: the value of state["extracted"]
extract_opportunity(file_name, raw_text_in, outcome) ==
  LET raw_text == Strip(raw_text_in)
  IN  IF ExtractionFailed(outcome)
        THEN Candidate(JStr(file_name), JStr(Take(raw_text, FallbackLimit)),
                       JList(<<>>), JList(<<>>))
        ELSE outcome.data.v

NormalizeRaised == [ok |-> FALSE, normalized |-> JNull]

\* normalize_opportunity: ok = FALSE when it raises (.strip() on a value that
\* is not a str, or the loop of _filter_list over an int)
normalize_opportunity(file_name, raw_text_in, extracted, skill_map, interest_map) ==
  LET raw_text    == Strip(raw_text_in)
      title       == IF Truthy(extracted.title) THEN extracted.title
                     ELSE JStr(file_name)
      description == IF Truthy(extracted.description) THEN extracted.description
                     ELSE JStr(Take(raw_text, DescriptionLimit))
      skills      == filter_list(extracted.skills, skill_map)
      interests   == filter_list(extracted.interests, interest_map)
  IN  IF title.t # "str" \/ description.t # "str" \/ ~skills.ok \/ ~interests.ok
        THEN NormalizeRaised
        ELSE [ok |-> TRUE,
              normalized |->
                [title          |-> Strip(title.v),
                 description    |-> IF Strip(description.v) = <<>> THEN Placeholder
                                    ELSE Strip(description.v),
                 skills         |-> skills.list,
                 interests      |-> interests.list,
                 source_file    |-> file_name,
                 model          |-> ModelName,
                 source_excerpt |-> IF raw_text # <<>>
                                      THEN JStr(Take(raw_text, ExcerptLimit))
                                      ELSE JNull]]

\* compute_thumbprint: SHA-256 of the text, taken as collision free: two
\* thumbprints are equal exactly when the texts are
compute_thumbprint(text) == [sha256 |-> text]

(***************************************************************************)
(* Record store and inverted indexes                                       *)
(***************************************************************************)

DotJson == <<".", "j", "s", "o", "n">>
DotTxt  == <<".", "t", "x", "t">>
DotIdx  == <<".", "i", "d", "x">>

\* A document of the output directory: text that is not JSON, or a record.
Corrupt     == [kind |-> "corrupt"]
Record(rec) == [kind |-> "record", data |-> rec]

\* normalized["thumbprint"] = thumbprint
WithThumbprint(n, thumbprint) ==
  [title |-> n.title, description |-> n.description, skills |-> n.skills,
   interests |-> n.interests, source_file |-> n.source_file, model |-> n.model,
   source_excerpt |-> n.source_excerpt, thumbprint |-> thumbprint]

\* path.name.endswith(".idx.json"), for the document of the stem
IsIndexArtifact(stem) ==
  Len(stem) >= Len(DotIdx)
    /\ SubSeq(stem, Len(stem) - Len(DotIdx) + 1, Len(stem)) = DotIdx

\* An index is a dict term -> list of entries, kept in insertion order.
IndexTerms(index) == {index[i].term : i \in 1..Len(index)}

\* index.get(term, [])
IndexGet(index, term) ==
  IF term \in IndexTerms(index)
    THEN index[CHOOSE i \in 1..Len(index) : index[i].term = term].entries
    ELSE <<>>

\* append_to_index that assigns a term's list instead of appending to it
RECURSIVE append_replacing(_, _, _)
append_replacing(index, keys, entry) ==
  IF keys = <<>> THEN index
  ELSE LET done    == append_replacing(index, SubSeq(keys, 1, Len(keys) - 1), entry)
           key     == keys[Len(keys)]
           cleaned == Strip(key)
       IN  IF key = <<>> \/ cleaned = <<>> THEN done
           ELSE IF cleaned \in IndexTerms(done)
             THEN [i \in 1..Len(done) |->
                     IF done[i].term = cleaned
                       THEN [term |-> cleaned, entries |-> <<entry>>]
                       ELSE done[i]]
           ELSE Append(done, [term |-> cleaned, entries |-> <<entry>>])

\* append_to_index
RECURSIVE append_to_index(_, _, _)
append_to_index(index, keys, entry) ==
  IF keys = <<>> THEN index
  ELSE LET done    == append_to_index(index, SubSeq(keys, 1, Len(keys) - 1), entry)
           key     == keys[Len(keys)]
           cleaned == Strip(key)
       IN  IF key = <<>> \/ cleaned = <<>> THEN done
           ELSE IF cleaned \in IndexTerms(done)
             THEN [i \in 1..Len(done) |->
                     IF done[i].term = cleaned
                       THEN [term |-> cleaned, entries |-> Append(done[i].entries, entry)]
                       ELSE done[i]]
           ELSE Append(done, [term |-> cleaned, entries |-> <<entry>>])

IndexEntry(stem, data) ==
  [title       |-> IF data.title # <<>> THEN data.title ELSE stem,
   file        |-> stem \o DotJson,
   source_file |-> IF data.source_file # <<>> THEN data.source_file ELSE stem]

\* build_indexes_from_outputs, for one category ("skills" or "interests");
\* scan is the order in which glob yields the documents
RECURSIVE build_index(_, _, _)
build_index(out, scan, category) ==
  IF scan = <<>> THEN <<>>
  ELSE LET index == build_index(out, SubSeq(scan, 1, Len(scan) - 1), category)
           stem  == scan[Len(scan)]
       IN  IF IsIndexArtifact(stem) \/ out[stem].kind = "corrupt" THEN index
           ELSE append_to_index(index, out[stem].data[category],
                                IndexEntry(stem, out[stem].data))

build_indexes_from_outputs(out, scan) ==
  [skills |-> build_index(out, scan, "skills"),
   interests |-> build_index(out, scan, "interests")]

TermBefore(x, y)  == StrLess(Lower(x.term), Lower(y.term))
TitleBefore(x, y) == StrLess(Lower(x.title), Lower(y.title))

\* write_index_file: the document written (generated_at, the wall clock time
\* of the rebuild, is left out)
write_index_file(label, index) ==
  LET ByTitle(entries) ==
        StableSort(entries, [i, j \in 1..Len(entries) |->
                               TitleBefore(entries[i], entries[j])])
      terms        == StableSort(index, [i, j \in 1..Len(index) |->
                                           TermBefore(index[i], index[j])])
      sorted_index == [i \in 1..Len(terms) |->
                         [term |-> terms[i].term,
                          entries |-> ByTitle(terms[i].entries)]]
  IN  [kind |-> "json", label |-> label, total_terms |-> Len(sorted_index),
       index |-> sorted_index]

NoIndexFile == [kind |-> "missing"]

\* app.load_index
load_index(file) == IF file.kind = "json" THEN file.index ELSE <<>>

(***************************************************************************)
(* Raw submissions                                                         *)
(***************************************************************************)

SlugLimit == 60
DefaultSlug == <<"o", "p", "p", "o", "r", "t", "u", "n", "i", "t", "y">>

\* re.sub(r"[^a-z0-9]+", "-", value)
Dashed(value) ==
  LET mapped == [i \in 1..Len(value) |->
                   IF IsLowerOrDigit(value[i]) THEN value[i] ELSE "-"]
  IN  Pick(mapped, {i \in 1..Len(mapped) :
                      ~(mapped[i] = "-" /\ i > 1 /\ mapped[i - 1] = "-")})

\* slugify_filename
slugify_filename(value) ==
  LET dashed == StripChars(Dashed(Lower(Strip(value))), {"-"})
      slug   == IF dashed # <<>> THEN dashed ELSE DefaultSlug
      cut    == StripChars(Take(slug, SlugLimit), {"-"})
  IN  IF cut # <<>> THEN cut ELSE DefaultSlug

\* the while loop of ensure_unique_raw_path
RECURSIVE probe(_, _, _)
probe(slug, counter, existing) ==
  LET candidate == slug \o <<"-">> \o Decimal(counter)
  IN  IF candidate \in existing THEN probe(slug, counter + 1, existing)
      ELSE candidate

\* ensure_unique_raw_path without the existence check
ensure_raw_path_unchecked(slug, existing) == slug

\* ensure_unique_raw_path: the stem of the path returned; existing is the set
\* of stems of the .txt files of the raw directory
ensure_unique_raw_path(slug, existing) ==
  IF slug \in existing THEN probe(slug, 2, existing) ELSE slug

\* save_raw_opportunity: the raw directory after the write
save_raw_opportunity(raw, title, description) ==
  LET slug == slugify_filename(IF title # <<>> THEN title ELSE DefaultSlug)
      path == ensure_unique_raw_path(slug, DOMAIN raw)
  IN  [s \in DOMAIN raw \cup {path} |->
         IF s = path THEN Strip(description) \o <<"\n">> ELSE raw[s]]

(***************************************************************************)
(* Query: intent extraction and match consolidation                        *)
(***************************************************************************)

\* Scores are kept in units of 0.5: a skill term weighs 2.0, an interest 1.5.
SkillWeight    == 4
InterestWeight == 3
DefaultLimit   == 8
MaxLimit       == 25

\* match_terms that compares the term as written with the lower-cased query
RECURSIVE match_terms_cased(_, _)
match_terms_cased(terms, lowered) ==
  IF terms = <<>> THEN <<>>
  ELSE LET matches == match_terms_cased(SubSeq(terms, 1, Len(terms) - 1), lowered)
           token   == Strip(terms[Len(terms)])
       IN  IF token # <<>> /\ IsSubstr(token, lowered) /\ ~InSeq(token, matches)
             THEN Append(matches, token)
             ELSE matches

\* match_terms of extract_intent
RECURSIVE match_terms(_, _)
match_terms(terms, lowered) ==
  IF terms = <<>> THEN <<>>
  ELSE LET matches == match_terms(SubSeq(terms, 1, Len(terms) - 1), lowered)
           token   == Strip(terms[Len(terms)])
       IN  IF token # <<>> /\ IsSubstr(Lower(token), lowered) /\ ~InSeq(token, matches)
             THEN Append(matches, token)
             ELSE matches

\* extract_intent
extract_intent(query, skills, interests) ==
  [skills    |-> match_terms(skills, Lower(query)),
   interests |-> match_terms(interests, Lower(query))]

\* combined is a dict file -> match, kept in insertion order
CombinedFiles(combined) == {combined[i].file : i \in 1..Len(combined)}

\* register, inside consolidate_matches
register(combined, entry, term, category, weight) ==
  IF entry.file = <<>> THEN combined
  ELSE LET start == IF entry.file \in CombinedFiles(combined) THEN combined
                    ELSE Append(combined,
                                [title |-> entry.title, file |-> entry.file,
                                 source_file |-> entry.source_file, score |-> 0,
                                 skills |-> <<>>, interests |-> <<>>])
       IN  [i \in 1..Len(start) |->
              IF start[i].file # entry.file THEN start[i]
              ELSE [start[i] EXCEPT ![category] = Append(@, term),
                                    !.score = @ + weight]]

\* for entry in index.get(term, []): register(entry, term, category, weight)
RECURSIVE register_entries(_, _, _, _, _)
register_entries(combined, entries, term, category, weight) ==
  IF entries = <<>> THEN combined
  ELSE register(register_entries(combined, SubSeq(entries, 1, Len(entries) - 1),
                                 term, category, weight),
                entries[Len(entries)], term, category, weight)

\* for term in intent.get(category, []): ...
RECURSIVE register_terms(_, _, _, _, _)
register_terms(combined, terms, index, category, weight) ==
  IF terms = <<>> THEN combined
  ELSE register_entries(register_terms(combined, SubSeq(terms, 1, Len(terms) - 1),
                                       index, category, weight),
                        IndexGet(index, terms[Len(terms)]),
                        terms[Len(terms)], category, weight)

\* the record read live from the store for a match (an unreadable or missing
\* document reads as {})
Details(out, file) ==
  LET stems == {s \in DOMAIN out : s \o DotJson = file /\ out[s].kind = "record"}
  IN  IF stems = {}
        THEN [description |-> JNull, skills |-> <<>>, interests |-> <<>>,
              model |-> JNull, source_excerpt |-> JNull]
        ELSE LET data == out[CHOOSE s \in stems : TRUE].data
             IN  [description |-> JStr(data.description), skills |-> data.skills,
                  interests |-> data.interests, model |-> JStr(data.model),
                  source_excerpt |-> data.source_excerpt]

\* the sort key without .lower() on the title
RankBeforeCased(x, y) ==
  \/ x.score > y.score
  \/ x.score = y.score /\ StrLess(x.title, y.title)

\* key=lambda item: (-item["score"], item["title"].lower())
RankBefore(x, y) ==
  \/ x.score > y.score
  \/ x.score = y.score /\ StrLess(Lower(x.title), Lower(y.title))

\* the return statement with the slice one too long
CappedOneMore(ordered, limit) ==
  [items     |-> Take(ordered, (IF limit > 1 THEN limit ELSE 1) + 1),
   available |-> Len(ordered)]

\* the return statement of consolidate_matches:
\* items = ordered[: max(limit, 1)], available = len(ordered)
Capped(ordered, limit) ==
  [items     |-> Take(ordered, IF limit > 1 THEN limit ELSE 1),
   available |-> Len(ordered)]

\* consolidate_matches
consolidate_matches(intent, limit, skill_file, interest_file, out) ==
  LET skill_index    == load_index(skill_file)
      interest_index == load_index(interest_file)
      by_skill == register_terms(<<>>, intent.skills, skill_index,
                                 "skills", SkillWeight)
      combined == register_terms(by_skill, intent.interests, interest_index,
                                 "interests", InterestWeight)
      results  == [i \in 1..Len(combined) |->
                     [title |-> combined[i].title, file |-> combined[i].file,
                      source_file |-> combined[i].source_file,
                      score |-> combined[i].score, skills |-> combined[i].skills,
                      interests |-> combined[i].interests,
                      details |-> Details(out, combined[i].file)]]
      ordered  == StableSort(results, [i, j \in 1..Len(results) |->
                                        RankBefore(results[i], results[j])])
  IN  Capped(ordered, limit)

\* int(text) for a str: ok = FALSE when it raises ValueError
RECURSIVE DigitsValue(_)
DigitsValue(text) ==
  IF text = <<>> THEN 0
  ELSE 10 * DigitsValue(SubSeq(text, 1, Len(text) - 1))
         + (CodePoint(text[Len(text)]) - CodePoint("0"))

ParseLimit(j) ==
  CASE j.t = "int" -> j.v
    [] j.t = "str" ->
         IF Strip(j.v) # <<>>
              /\ \A i \in 1..Len(Strip(j.v)) : InSeq(Strip(j.v)[i], Digits)
           THEN DigitsValue(Strip(j.v)) ELSE DefaultLimit
    [] OTHER -> DefaultLimit

\* limit = max(1, min(limit, 25))
ClampLimit(n) ==
  LET low == IF n < MaxLimit THEN n ELSE MaxLimit
  IN  IF low > 1 THEN low ELSE 1

NoRequest  == [query |-> <<>>, limit |-> JNull]
NoResponse == [status |-> 0]

\* find_opportunity, the JSON branch: the response
find_opportunity(query_in, limit_in, skills_file, interests_file, skill_file, interest_file, out) ==
  LET query     == Strip(query_in)
      limit     == ClampLimit(ParseLimit(limit_in))
      skills    == load_json_list(skills_file)
      interests == load_json_list(interests_file)
      intent    == extract_intent(query, skills.list, interests.list)
      match_data == consolidate_matches(intent, limit, skill_file, interest_file, out)
  IN  IF query = <<>> THEN [status |-> 400]
      ELSE IF ~skills.ok \/ ~interests.ok THEN [status |-> 500]
      ELSE [status |-> 200, query |-> query, intent |-> intent,
            matches |-> match_data.items,
            stats |-> [requested_limit   |-> limit,
                       available_matches |-> match_data.available,
                       skill_terms       |-> Len(intent.skills),
                       interest_terms    |-> Len(intent.interests)]]

(***************************************************************************)
(* State                                                                   *)
(***************************************************************************)

VARIABLES
  rawFiles,         \* oportunities_raw/*.txt : stem -> text
  outFiles,         \* oportunities/*.json    : stem -> document
  skillIdxFile,     \* index/skill.idx.json
  interestIdxFile,  \* index/interest.idx.json
  skillsFile,       \* the skills vocabulary file
  interestsFile,    \* the interests vocabulary file
  pc,               \* where process_opportunity_files is, or how it ended
  txt_files,        \* the raw inputs the loop has still to visit
  skills,           \* the vocabularies the batch loaded
  interests,
  built,            \* the indexes build_indexes_from_outputs returned
  calls,            \* stems the batch called llm.invoke for
  written,          \* stems whose record the batch wrote
  stale,            \* stems the change-detection gate did not skip
  rebuilt,          \* labels of the index files the batch wrote
  processed,        \* stems whose record a batch derived from the raw text
                    \* the stem has now, the record untouched since
  edits,            \* how many times the environment has touched a file
  state,            \* the graph state of one graph.invoke
  request,          \* the last request find_opportunity handled
  response,         \* its response
  handlers          \* the request handlers of the server that run side by
                    \* side: handler -> what it has done of its request

storeVars == <<rawFiles, outFiles, skillIdxFile, interestIdxFile>>
vocabVars == <<skillsFile, interestsFile>>
batchVars == <<pc, txt_files, skills, interests, built>>
traceVars == <<calls, written, stale, rebuilt, processed, edits>>
vars == <<rawFiles, outFiles, skillIdxFile, interestIdxFile, skillsFile,
          interestsFile, pc, txt_files, skills, interests, built, calls,
          written, stale, rebuilt, processed, edits, state, request, response, handlers>>

MaxHandlers == 2    \* request handlers the server runs side by side
Handlers == 1..MaxHandlers
NoFrame == [op |-> "none"]
NoHandlers == [h \in Handlers |-> NoFrame]

\* No batch is running: none has run, or the last one ended.
AtRest == {"idle", "done", "nothing", "config_error", "item_error"}

(***************************************************************************)
(* Inputs                                                                  *)
(***************************************************************************)

MaxRaw   == 2         \* raw files the submissions may create
MaxEdits == 1         \* files the environment may touch in one run

tDog  == <<"D", "o", "g">>
tArt  == <<"a", "r", "t">>
tCats == <<"c", "a", "t", "s">>

SkillsVocabulary    == FileJson(JList(<<JStr(tDog), JStr(tArt)>>))
InterestsVocabulary == FileJson(JList(<<JStr(tCats)>>))

VocabularyFiles ==
  { <<SkillsVocabulary, InterestsVocabulary>>, <<FileMissing, InterestsVocabulary>> }

\* "Dog", "dog 2": the second slug is the first one's first suffixed path
Titles == { tDog, <<"d", "o", "g", " ", "2">> }
Descriptions == { <<"d", "o", "g", "s", " ">> }
\* what an edit of a raw file leaves in it
Edits == { <<" ", "c", "a", "t", "s", "\n">> }

\* a document of the output directory that no raw input stands behind
StrayStems == { <<"n", "o", "t", "e", "s">> }

GoodPayload ==
  JDict(Candidate(JStr(<<"C", "a", "t">>), JStr(<<"c", "a", "r", "e">>),
                  JList(<<JStr(<<"d", "o", "g">>), JStr(<<"z">>)>>),
                  JList(<<JStr(<<"C", "A", "T", "S", " ">>)>>)))
SparsePayload ==
  JDict(Candidate(JNull, JStr(<<>>), JList(<<JStr(<<"p", "a", "r", "t", "y">>)>>), JNull))

\* what the extraction service may answer for an item
Outcomes ==
  { TransportError, NotJson, Parsed(JList(<<>>)), Parsed(JStr(<<"o", "k">>)),
    Parsed(GoodPayload),
    Parsed(JDict(Candidate(JInt(5), JNull, JNull, JNull))),
    Parsed(JDict(Candidate(JNull, JList(<<JStr(<<"x">>)>>), JNull, JNull))),
    Parsed(JDict(Candidate(JNull, JNull, JInt(7), JNull))),
    Parsed(JDict(Candidate(JNull, JNull, JNull, JInt(1)))) }

(***************************************************************************)
(* Initial state: empty directories, vocabulary files in place or not      *)
(***************************************************************************)

EmptyDir == [s \in {} |-> <<>>]
NoIndexes == [skills |-> <<>>, interests |-> <<>>]
NoState  == [stage |-> "none"]

Init ==
  /\ rawFiles = EmptyDir
  /\ outFiles = EmptyDir
  /\ skillIdxFile = NoIndexFile
  /\ interestIdxFile = NoIndexFile
  /\ \E files \in VocabularyFiles :
       skillsFile = files[1] /\ interestsFile = files[2]
  /\ pc = "idle"
  /\ txt_files = <<>>
  /\ skills = <<>>
  /\ interests = <<>>
  /\ built = NoIndexes
  /\ calls = {}
  /\ written = {}
  /\ stale = {}
  /\ rebuilt = {}
  /\ processed = {}
  /\ edits = 0
  /\ state = NoState
  /\ request = NoRequest
  /\ response = NoResponse
  /\ handlers = NoHandlers

(***************************************************************************)
(* The ingestion batch: process_opportunity_files                          *)
(***************************************************************************)

PathBefore(x, y) == StrLess(x \o DotTxt, y \o DotTxt)

\* sorted(raw_dir.glob("*.txt")), as stems
SortedTxt(raw) ==
  LET n == Cardinality(DOMAIN raw)
  IN  [k \in 1..n |->
         CHOOSE s \in DOMAIN raw :
           Cardinality({r \in DOMAIN raw : PathBefore(r, s)}) = k - 1]

\* Lines 243-252: load the vocabularies, list the raw inputs.
StartBatch(raw) ==
  LET sk    == load_reference_list(skillsFile)
      in    == load_reference_list(interestsFile)
      files == SortedTxt(raw)
  IN  /\ calls' = {}
      /\ written' = {}
      /\ stale' = {}
      /\ rebuilt' = {}
      /\ built' = NoIndexes
      /\ IF ~sk.ok \/ ~in.ok
           THEN pc' = "config_error" /\ txt_files' = <<>>
                /\ skills' = <<>> /\ interests' = <<>>
           ELSE IF files = <<>>
             THEN pc' = "nothing" /\ txt_files' = <<>>
                  /\ skills' = <<>> /\ interests' = <<>>
           ELSE pc' = "loop" /\ txt_files' = files
                /\ skills' = sk.list /\ interests' = in.list

\* main() of process_oportunities.py
run_batch ==
  /\ pc \in AtRest
  /\ StartBatch(rawFiles)
  /\ UNCHANGED <<storeVars, vocabVars, processed, edits, state, request, response, handlers>>

\* app.add_opportunity (POST): save the raw text, then run the pipeline
add_opportunity(title, description) ==
  /\ pc \in AtRest
  /\ Strip(title) # <<>>
  /\ Strip(description) # <<>>
  /\ Cardinality(DOMAIN rawFiles) < MaxRaw
  /\ rawFiles' = save_raw_opportunity(rawFiles, Strip(title), Strip(description))
  /\ StartBatch(rawFiles')
  /\ UNCHANGED <<outFiles, skillIdxFile, interestIdxFile, vocabVars,
                 processed, edits, state, request, response, handlers>>

\* the gate with its comparison turned round: skips when the thumbprint differs
GateSkipsInverted(out, stem, thumbprint) ==
  /\ stem \in DOMAIN out
  /\ out[stem].kind = "record"
  /\ out[stem].data.thumbprint # thumbprint

\* the change-detection gate, lines 259-267: TRUE when the item is skipped
GateSkips(out, stem, thumbprint) ==
  /\ stem \in DOMAIN out
  /\ out[stem].kind = "record"
  /\ out[stem].data.thumbprint = thumbprint

\* One iteration of the for loop, lines 254-285.
process_item ==
  /\ pc = "loop"
  /\ txt_files # <<>>
  /\ LET stem       == Head(txt_files)
         raw_text   == rawFiles[stem]
         thumbprint == compute_thumbprint(raw_text)
     IN  IF GateSkips(outFiles, stem, thumbprint)
           THEN /\ txt_files' = Tail(txt_files)
                /\ UNCHANGED <<storeVars, vocabVars, pc, skills, interests, built,
                               traceVars, state, request, response, handlers>>
           ELSE \E outcome \in Outcomes :
                  LET extracted == extract_opportunity(stem, raw_text, outcome)
                      result    == normalize_opportunity(stem, raw_text, extracted,
                                                         lower_map(skills),
                                                         lower_map(interests))
                  IN  /\ calls' = calls \cup {stem}
                      /\ stale' = stale \cup {stem}
                      /\ IF result.ok
                           THEN /\ outFiles' =
                                     [s \in DOMAIN outFiles \cup {stem} |->
                                        IF s = stem
                                          THEN Record(WithThumbprint(result.normalized,
                                                                     thumbprint))
                                          ELSE outFiles[s]]
                                /\ written' = written \cup {stem}
                                /\ processed' = processed \cup {stem}
                                /\ txt_files' = Tail(txt_files)
                                /\ pc' = pc
                                /\ UNCHANGED <<skills, interests>>
                           ELSE /\ pc' = "item_error"
                                /\ txt_files' = <<>>
                                /\ skills' = <<>>
                                /\ interests' = <<>>
                                /\ UNCHANGED <<outFiles, written, processed>>
                      /\ UNCHANGED <<rawFiles, skillIdxFile, interestIdxFile, vocabVars,
                                     built, rebuilt, edits, state, request, response, handlers>>

\* the orders in which glob may yield the documents of the output directory
ScanOrders(out) ==
  {scan \in [1..Cardinality(DOMAIN out) -> DOMAIN out] :
     \A i, j \in DOMAIN scan : i # j => scan[i] # scan[j]}

\* Line 287: rescan the output directory.
build_indexes ==
  /\ pc = "loop"
  /\ txt_files = <<>>
  /\ \E scan \in ScanOrders(outFiles) :
       built' = build_indexes_from_outputs(outFiles, scan)
  /\ pc' = "write_skill"
  /\ UNCHANGED <<storeVars, vocabVars, txt_files, skills, interests, traceVars,
                 state, request, response, handlers>>

\* Line 290
write_skill_index ==
  /\ pc = "write_skill"
  /\ skillIdxFile' = write_index_file("skills", built.skills)
  /\ rebuilt' = rebuilt \cup {"skills"}
  /\ pc' = "write_interest"
  /\ UNCHANGED <<rawFiles, outFiles, interestIdxFile, vocabVars, txt_files, skills,
                 interests, built, calls, written, stale, processed, edits, state,
                 request, response, handlers>>

\* Line 291
write_interest_index ==
  /\ pc = "write_interest"
  /\ interestIdxFile' = write_index_file("interests", built.interests)
  /\ rebuilt' = rebuilt \cup {"interests"}
  /\ pc' = "done"
  /\ skills' = <<>>
  /\ interests' = <<>>
  /\ built' = NoIndexes
  /\ UNCHANGED <<rawFiles, outFiles, skillIdxFile, vocabVars, txt_files,
                 calls, written, stale, processed, edits, state, request, response, handlers>>

(***************************************************************************)
(* The environment, between batches: a raw file is edited, a record file   *)
(* is damaged                                                              *)
(***************************************************************************)

Touch ==
  /\ edits < MaxEdits
  /\ edits' = edits + 1
  /\ pc' = "idle"
  /\ calls' = {} /\ written' = {} /\ stale' = {} /\ rebuilt' = {}
  /\ UNCHANGED <<skillIdxFile, interestIdxFile, vocabVars, txt_files, skills,
                 interests, built, state, request, response, handlers>>

edit_raw(stem, text) ==
  /\ pc \in AtRest
  /\ stem \in DOMAIN rawFiles
  /\ rawFiles[stem] # text
  /\ rawFiles' = [rawFiles EXCEPT ![stem] = text]
  /\ processed' = processed \ {stem}
  /\ Touch
  /\ UNCHANGED outFiles

\* a document of the output directory is overwritten with, or created as,
\* text that is not JSON
damage_record(stem) ==
  /\ pc \in AtRest
  /\ stem \in DOMAIN outFiles => outFiles[stem] # Corrupt
  /\ outFiles' = [s \in DOMAIN outFiles \cup {stem} |->
                    IF s = stem THEN Corrupt ELSE outFiles[s]]
  /\ processed' = processed \ {stem}
  /\ Touch
  /\ UNCHANGED rawFiles

Next ==
  \/ run_batch
  \/ \E title \in Titles, description \in Descriptions :
       add_opportunity(title, description)
  \/ process_item
  \/ build_indexes
  \/ write_skill_index
  \/ write_interest_index
  \/ \E stem \in DOMAIN rawFiles, text \in Edits : edit_raw(stem, text)
  \/ \E stem \in DOMAIN outFiles \cup StrayStems : damage_record(stem)

Spec == Init /\ [][Next]_vars

(***************************************************************************)
(* Properties of the ingestion batch                                       *)
(***************************************************************************)

\* C1: a raw input that a batch has processed, its text and its record left
\* alone since, costs a later batch no extraction call and no write of its
\* record, and the record keeps its thumbprint.
C1_Idempotent ==
  [][\A s \in processed \cap processed' :
       /\ s \in calls' => s \in calls
       /\ s \in written' => s \in written
       /\ s \in DOMAIN outFiles'
       /\ outFiles'[s].kind = "record"
       /\ outFiles'[s].data.thumbprint = outFiles[s].data.thumbprint]_vars

\* a batch has ended that skipped an input processed by an earlier batch
C1_Witness ==
  /\ pc = "done"
  /\ \E s \in processed : s \notin calls /\ s \notin written

\* C2: after a batch, every raw input whose record the gate found absent,
\* unparsable or of another thumbprint has a record whose thumbprint is the
\* hash of the raw text.
C2_StaleRegenerated ==
  pc \in {"done", "item_error"} =>
    \A s \in stale :
      /\ s \in DOMAIN outFiles
      /\ outFiles[s].kind = "record"
      /\ outFiles[s].data.thumbprint = compute_thumbprint(rawFiles[s])

\* C3: a batch whose vocabularies loaded ends with both index files rewritten.
C3_EndsWithRebuild ==
  pc \in {"done", "nothing", "item_error"} => rebuilt = {"skills", "interests"}

\* the records of the output directory that carry the term in the category
Carriers(term, category) ==
  {s \in DOMAIN outFiles :
     /\ ~IsIndexArtifact(s)
     /\ outFiles[s].kind = "record"
     /\ \E i \in 1..Len(outFiles[s].data[category]) :
          Strip(outFiles[s].data[category][i]) = term}

CarriedTerms(category) ==
  UNION { {Strip(outFiles[s].data[category][i]) :
             i \in 1..Len(outFiles[s].data[category])} :
          s \in {r \in DOMAIN outFiles :
                   ~IsIndexArtifact(r) /\ outFiles[r].kind = "record"} } \ {<<>>}

Reference(s) ==
  [title       |-> IF outFiles[s].data.title # <<>> THEN outFiles[s].data.title ELSE s,
   file        |-> s \o DotJson,
   source_file |-> outFiles[s].data.source_file]

IndexMatchesStore(file, category) ==
  /\ file.kind = "json"
  /\ IndexTerms(file.index) = CarriedTerms(category)
  /\ Len(file.index) = Cardinality(IndexTerms(file.index))
  /\ \A i \in 1..Len(file.index) :
       LET entries == file.index[i].entries
           term    == file.index[i].term
       IN  /\ Len(entries) = Cardinality(Carriers(term, category))
           /\ {entries[j] : j \in 1..Len(entries)}
                = {Reference(s) : s \in Carriers(term, category)}

C6_NoItemAbortsBatch == pc # "item_error"

Suffixed(slug, k) == slug \o <<"-">> \o Decimal(k)

C14_RebuildDeterministic ==
  pc = "done" =>
    \A scan \in ScanOrders(outFiles) :
      /\ write_index_file("skills", build_index(outFiles, scan, "skills"))
           = skillIdxFile
      /\ write_index_file("interests", build_index(outFiles, scan, "interests"))
           = interestIdxFile

(***************************************************************************)
(* The processing graph on its own: one graph.invoke, node by node         *)
(***************************************************************************)

Extra == 2    \* characters by which the long raw text exceeds FallbackLimit

LongText == [i \in 1..(FallbackLimit + Extra) |-> "x"]

GraphFileNames == { <<"d", "o", "g">>, <<"d", "o", "g", "-", "2">> }
GraphRawTexts ==
  { <<>>, <<" ", "\n">>, <<"d", "o", "g", "s", "\n">>, LongText \o <<"\n">>,
    <<"\n", " ">> \o LongText }
\* tokens in other case than the vocabulary, inside a term, around a term,
\* blank, repeated, not a str, and foreign to the vocabulary
TokensPayload ==
  JDict(Candidate(JStr(<<"C", "a", "t">>), JStr(<<"c", "a", "r", "e">>),
                  JList(<<JStr(<<"h", "o", "t", "d", "o", "g", "s">>),
                          JStr(<<"A", "R", "T">>), JStr(<<" ">>),
                          JStr(<<" ", "o", "g", " ">>), JInt(2),
                          JStr(<<"h", "o", "t", "d", "o", "g">>),
                          JStr(<<"z", "z">>), JStr(<<"r">>)>>),
                  JList(<<JStr(<<"c", "a", "t">>), JStr(<<>>),
                          JStr(<<"C", "a", "t", "s">>)>>)))
\* one token for each list, in other case than the vocabulary
ExactPayload ==
  JDict(Candidate(JNull, JNull, JList(<<JStr(<<"D", "O", "G">>)>>),
                  JList(<<JStr(<<"C", "a", "t", "s">>)>>)))
\* an empty token, and a token inside a term but for the blanks around it
PaddedPayload ==
  JDict(Candidate(JNull, JNull, JList(<<JStr(<<>>)>>),
                  JList(<<JStr(<<" ", "a", "t", "s", " ">>)>>)))
\* a title and a description of whitespace only
BlankPayload ==
  JDict(Candidate(JStr(<<" ">>), JStr(<<" ", "\n">>), JList(<<>>), JList(<<>>)))
GraphOutcomes ==
  Outcomes \cup {Parsed(SparsePayload), Parsed(TokensPayload), Parsed(ExactPayload),
                 Parsed(PaddedPayload), Parsed(BlankPayload)}

\* skills vocabularies: the second repeats a term in other case and holds a
\* term that contains another
GraphSkillsFiles ==
  { SkillsVocabulary,
    FileJson(JList(<<JStr(tDog), JStr(tArt), JStr(<<"D", "O", "G">>),
                     JStr(<<"h", "o", "t", "d", "o", "g">>)>>)) }

InitGraph ==
  /\ rawFiles = EmptyDir
  /\ outFiles = EmptyDir
  /\ skillIdxFile = NoIndexFile
  /\ interestIdxFile = NoIndexFile
  /\ \E file \in GraphSkillsFiles :
       /\ skillsFile = file
       /\ skills = load_reference_list(file).list
  /\ interestsFile = InterestsVocabulary
  /\ pc = "loop"
  /\ txt_files = <<>>
  /\ interests = load_reference_list(InterestsVocabulary).list
  /\ built = NoIndexes
  /\ calls = {}
  /\ written = {}
  /\ stale = {}
  /\ rebuilt = {}
  /\ processed = {}
  /\ edits = 0
  /\ \E file_name \in GraphFileNames, raw_text \in GraphRawTexts :
       state = [stage |-> "start", file_name |-> file_name, raw_text |-> raw_text]
  /\ request = NoRequest
  /\ response = NoResponse
  /\ handlers = NoHandlers

graphFrame ==
  <<storeVars, vocabVars, batchVars, traceVars, request, response, handlers>>

\* the node "extract"; the answer of the service is kept beside the state
graph_extract(outcome) ==
  /\ state.stage = "start"
  /\ state' = [stage     |-> "extracted",
               file_name |-> state.file_name,
               raw_text  |-> state.raw_text,
               outcome   |-> outcome,
               extracted |-> extract_opportunity(state.file_name, state.raw_text,
                                                 outcome)]
  /\ UNCHANGED graphFrame

\* the node "normalize"
graph_normalize ==
  /\ state.stage = "extracted"
  /\ LET result == normalize_opportunity(state.file_name, state.raw_text,
                                         state.extracted, lower_map(skills),
                                         lower_map(interests))
     IN  state' = [stage      |-> IF result.ok THEN "normalized" ELSE "raised",
                   file_name  |-> state.file_name,
                   raw_text   |-> state.raw_text,
                   outcome    |-> state.outcome,
                   extracted  |-> state.extracted,
                   normalized |-> result.normalized]
  /\ UNCHANGED graphFrame

NextGraph ==
  \/ \E outcome \in GraphOutcomes : graph_extract(outcome)
  \/ graph_normalize

SpecGraph == InitGraph /\ [][NextGraph]_vars

\* the extraction call failed: transport error, response that is not JSON,
\* or JSON that is not an object
CallFailed ==
  /\ state.stage \in {"extracted", "normalized", "raised"}
  /\ \/ state.outcome.kind \in {"transport_error", "not_json"}
     \/ state.outcome.kind = "json" /\ state.outcome.data.t # "dict"

\* C5 as stated: on a failed call the candidate record has the source
\* identifier as title, the first 400 characters of the raw text as
\* description, and no skills or interests.
C5_FallbackOfRawText ==
  CallFailed =>
    state.extracted = Candidate(JStr(state.file_name),
                                JStr(Take(state.raw_text, FallbackLimit)),
                                JList(<<>>), JList(<<>>))

\* C5, amended: the description is the first 400 characters of the raw text
\* with its leading and trailing whitespace removed.
C5_FallbackOfStrippedText ==
  CallFailed =>
    state.extracted = Candidate(JStr(state.file_name),
                                JStr(Take(Strip(state.raw_text), FallbackLimit)),
                                JList(<<>>), JList(<<>>))

\* a failed call on a raw text that is longer than the limit and begins with
\* whitespace
C5_Witness ==
  /\ CallFailed
  /\ state.outcome.kind = "json"
  /\ Len(Strip(state.raw_text)) > FallbackLimit
  /\ state.raw_text[1] \in Whitespace

\* the positions of the vocabulary whose term equals the text but for case
ExactTerms(text, vocabulary) ==
  {k \in 1..Len(vocabulary) : Lower(vocabulary[k]) = Lower(text)}

ExactMapped(values, list, vocabulary) ==
  (Truthy(values) /\ Iterable(values)) =>
    \A i \in 1..Len(Items(values)) :
      LET text == PyStr(Items(values)[i])
      IN  ExactTerms(text, vocabulary) # {} =>
            \E r \in 1..Len(list) :
              list[r] \in {vocabulary[k] : k \in ExactTerms(text, vocabulary)}

\* C11: a token of the candidate that equals a term of the vocabulary but for
\* case is mapped to that term, written as the vocabulary writes it: the
\* normalized list holds it.
C11_ExactMatch ==
  state.stage = "normalized" =>
    /\ ExactMapped(state.extracted.skills, state.normalized.skills, skills)
    /\ ExactMapped(state.extracted.interests, state.normalized.interests, interests)

\* the token "DOG" came out as the term "Dog" of the vocabulary
C11_Witness ==
  /\ state.stage = "normalized"
  /\ state.extracted.skills = JList(<<JStr(<<"D", "O", "G">>)>>)
  /\ skills = <<tDog, tArt>>
  /\ state.normalized.skills = <<tDog>>
  /\ state.normalized.interests = <<tCats>>

\* the position in the vocabulary of the term a token is mapped to, 0 when
\* the token is dropped: the first term equal to the token, else the first
\* term that contains the token or is contained in it, all in lower case
FirstTerm(tok, vocabulary) ==
  LET exact == {k \in 1..Len(vocabulary) : Lower(vocabulary[k]) = tok}
      fuzzy == {k \in 1..Len(vocabulary) :
                  \/ IsSubstr(tok, Lower(vocabulary[k]))
                  \/ IsSubstr(Lower(vocabulary[k]), tok)}
      hits  == IF exact # {} THEN exact ELSE fuzzy
  IN  IF hits = {} THEN 0 ELSE CHOOSE k \in hits : \A m \in hits : k <= m

\* the list holds, in lower case, the terms the tokens are mapped to, each
\* once and in the order its first token came; trimmed: the token is taken
\* without the whitespace around it, and an empty one is dropped
MappedInOrder(values, list, vocabulary, trimmed) ==
  LET items == IF Truthy(values) THEN Items(values) ELSE <<>>
      tok   == [i \in 1..Len(items) |->
                  IF trimmed THEN Lower(Strip(PyStr(items[i])))
                  ELSE Lower(PyStr(items[i]))]
      pos   == [i \in 1..Len(items) |->
                  IF trimmed /\ tok[i] = <<>> THEN 0
                  ELSE FirstTerm(tok[i], vocabulary)]
      term  == [i \in 1..Len(items) |->
                  IF pos[i] = 0 THEN <<>> ELSE Lower(vocabulary[pos[i]])]
      first == {i \in 1..Len(items) :
                  pos[i] # 0 /\ \A j \in 1..(i - 1) : term[j] # term[i]}
  IN  [r \in 1..Len(list) |-> Lower(list[r])] = Pick(term, first)

OnlyTerms(list, vocabulary) ==
  /\ \A r \in 1..Len(list) : InSeq(list[r], vocabulary)
  /\ \A r, q \in 1..Len(list) : r # q => list[r] # list[q]

\* C12 as stated: a token with no exact match is mapped to the first term in
\* vocabulary order that contains it or that it contains, and dropped when
\* there is none; the lists hold only vocabulary terms, each once, in
\* first-seen order.
C12_FuzzyMatch ==
  state.stage = "normalized" =>
    /\ MappedInOrder(state.extracted.skills, state.normalized.skills, skills, FALSE)
    /\ MappedInOrder(state.extracted.interests, state.normalized.interests,
                     interests, FALSE)
    /\ OnlyTerms(state.normalized.skills, skills)
    /\ OnlyTerms(state.normalized.interests, interests)

\* C12, amended: the same of the token without the whitespace around it; a
\* token that is empty then is dropped.
C12_FuzzyMatchTrimmed ==
  state.stage = "normalized" =>
    /\ MappedInOrder(state.extracted.skills, state.normalized.skills, skills, TRUE)
    /\ MappedInOrder(state.extracted.interests, state.normalized.interests,
                     interests, TRUE)
    /\ OnlyTerms(state.normalized.skills, skills)
    /\ OnlyTerms(state.normalized.interests, interests)

\* "hotdogs" went to the first term it contains and not to "hotdog", "zz" and
\* the blank token were dropped, "r" and " og " added no second copy
C12_Witness ==
  /\ state.stage = "normalized"
  /\ state.outcome = Parsed(TokensPayload)
  /\ Len(skills) = 4
  /\ state.normalized.skills = <<skills[3], skills[2], skills[4]>>
  /\ state.normalized.interests = <<tCats>>

\* a field of the candidate that is there: a str with more than whitespace
Present(field) == field.t = "str" /\ Strip(field.v) # <<>>

\* C16: every record the normalizer produces has a non-empty title, the
\* extracted one or else the source identifier, and a non-empty description,
\* the extracted one, or else the first 800 characters of the raw text when
\* there is raw text, or else the placeholder; a field that is absent, empty
\* or whitespace only counts as not extracted.
C16_RequiredFields ==
  state.stage = "normalized" =>
    LET extracted == state.extracted
        raw_text  == Strip(state.raw_text)
    IN  /\ state.normalized.title # <<>>
        /\ state.normalized.description # <<>>
        /\ state.normalized.title =
             IF Present(extracted.title) THEN Strip(extracted.title.v)
             ELSE state.file_name
        /\ state.normalized.description =
             IF Present(extracted.description) THEN Strip(extracted.description.v)
             ELSE IF raw_text # <<>> THEN Strip(Take(raw_text, DescriptionLimit))
             ELSE Placeholder

(***************************************************************************)
(* Queries: find_opportunity against the store and the indexes a completed *)
(* batch has left                                                          *)
(***************************************************************************)

MaxDocs == 3    \* raw inputs of the batch the queries run after

DocStem(i) == <<"d">> \o Decimal(i)
DocText(i) == <<"t", "e", "x", "t", " ">> \o Decimal(i) \o <<"\n">>

tDogJ  == JStr(<<"d", "o", "g">>)
tArtJ  == JStr(<<"A", "R", "T">>)
tCatsJ == JStr(<<"c", "a", "t", "s">>)

\* what the extraction service answered for the raw inputs of that batch
DocPayloads ==
  { JDict(Candidate(JStr(<<"Z", "o", "o">>), JNull, JList(<<tDogJ>>), JNull)),
    JDict(Candidate(JStr(<<"a", "n", "t">>), JNull, JList(<<tDogJ>>), JList(<<>>))),
    JDict(Candidate(JNull, JNull, JList(<<tArtJ, tDogJ>>), JList(<<tCatsJ>>))) }

\* vocabulary files: the terms of the second repeat and differ in case
QueryVocabularies ==
  { <<SkillsVocabulary, InterestsVocabulary>>,
    <<FileJson(JList(<<JStr(tArt), JStr(<<" ", "D", "o", "g">>), JStr(tArt),
                       JStr(<<"D", "O", "G">>), JInt(2)>>)),
      FileJson(JList(<<JStr(tCats), JStr(<<" ">>)>>))>> }

Queries ==
  { <<"D", "O", "G", "S", " ", "c", "a", "t", "s">>,
    <<" ", "a", "r", "t", " ", "d", "o", "g", " ", "2">>,
    <<"c", "a", "t", "s", " ", "p", "a", "r", "t", "y">>,
    <<"c", "a", "t">> }
Limits == { JInt(0), JInt(1), JInt(2), JInt(MaxLimit), JInt(MaxLimit + 1),
            JStr(<<"3">>), JNull }

\* the record the batch wrote for raw input i
DocRecord(i, payload, skillList, interestList) ==
  Record(WithThumbprint(
    normalize_opportunity(DocStem(i), DocText(i),
                          extract_opportunity(DocStem(i), DocText(i), Parsed(payload)),
                          lower_map(skillList), lower_map(interestList)).normalized,
    compute_thumbprint(DocText(i))))

InitQuery ==
  \E n \in 0..MaxDocs, files \in QueryVocabularies :
    \E answers \in [1..n -> DocPayloads] :
      LET sk    == load_reference_list(files[1]).list
          in    == load_reference_list(files[2]).list
          stems == {DocStem(i) : i \in 1..n}
          index(s) == CHOOSE i \in 1..n : DocStem(i) = s
          out   == [s \in stems |-> DocRecord(index(s), answers[index(s)], sk, in)]
      IN  /\ rawFiles = [s \in stems |-> DocText(index(s))]
          /\ outFiles = out
          /\ \E scan \in ScanOrders(out) :
               LET indexes == build_indexes_from_outputs(out, scan)
               IN  /\ skillIdxFile = write_index_file("skills", indexes.skills)
                   /\ interestIdxFile = write_index_file("interests", indexes.interests)
          /\ skillsFile = files[1]
          /\ interestsFile = files[2]
          /\ pc = IF n = 0 THEN "idle" ELSE "done"
          /\ txt_files = <<>>
          /\ skills = <<>>
          /\ interests = <<>>
          /\ built = NoIndexes
          /\ calls = stems
          /\ written = stems
          /\ stale = stems
          /\ rebuilt = IF n = 0 THEN {} ELSE {"skills", "interests"}
          /\ processed = stems
          /\ edits = 0
          /\ state = NoState
          /\ request = NoRequest
          /\ response = NoResponse
          /\ handlers = NoHandlers

\* POST /find-opportunity with a JSON body
find_opportunity_post(query, limit) ==
  /\ pc \in AtRest
  /\ response = NoResponse
  /\ request' = [query |-> query, limit |-> limit]
  /\ response' = find_opportunity(query, limit, skillsFile, interestsFile,
                                  skillIdxFile, interestIdxFile, outFiles)
  /\ UNCHANGED <<storeVars, vocabVars, batchVars, traceVars, state, handlers>>

\* the response goes out to the client; the server takes the next request
send_response ==
  /\ response # NoResponse
  /\ request' = NoRequest
  /\ response' = NoResponse
  /\ UNCHANGED <<storeVars, vocabVars, batchVars, traceVars, state, handlers>>

NextQuery ==
  \/ \E query \in Queries, limit \in Limits : find_opportunity_post(query, limit)
  \/ send_response

SpecQuery == InitQuery /\ [][NextQuery]_vars

\* the documents the index entries of the intent's terms refer to
Referenced(file, terms) ==
  UNION { {IndexGet(load_index(file), terms[i])[j].file :
             j \in 1..Len(IndexGet(load_index(file), terms[i]))} :
          i \in 1..Len(terms) }

CandidatePool ==
  Referenced(skillIdxFile, response.intent.skills)
    \cup Referenced(interestIdxFile, response.intent.interests)

\* C8: for a limit N in 1..25 and a pool of M matching documents the response
\* holds min(N, M) matches and reports M available matches.
C8_ResultCap ==
  (response.status = 200 /\ request.limit.t = "int"
     /\ request.limit.v >= 1 /\ request.limit.v <= MaxLimit) =>
    LET N == request.limit.v
        M == Cardinality(CandidatePool)
    IN  /\ Len(response.matches) = IF N < M THEN N ELSE M
        /\ response.stats.available_matches = M

\* a limit below the size of the pool, and one above it
C8_Witness ==
  /\ response.status = 200
  /\ request.limit = JInt(2)
  /\ Cardinality(CandidatePool) = 3

\* number of the intent's terms whose index entries refer to the document
Hits(file, terms, doc) ==
  Cardinality({i \in 1..Len(terms) : doc \in Referenced(file, <<terms[i]>>)})

\* C9: a match scores 2.0 per skill term and 1.5 per interest term of the
\* intent whose index entries refer to it (here in units of 0.5); the matches
\* come by descending score, equal scores by lower-cased title ascending.
C9_Ranking ==
  response.status = 200 =>
    /\ \A i \in 1..Len(response.matches) :
         response.matches[i].score =
           4 * Hits(skillIdxFile, response.intent.skills, response.matches[i].file)
           + 3 * Hits(interestIdxFile, response.intent.interests,
                      response.matches[i].file)
    /\ \A i, j \in 1..Len(response.matches) :
         i < j =>
           \/ response.matches[i].score > response.matches[j].score
           \/ /\ response.matches[i].score = response.matches[j].score
              /\ ~StrLess(Lower(response.matches[j].title),
                          Lower(response.matches[i].title))

\* a response that ranks by score (3.5 before 2.0), and one that breaks a tie
\* by a title whose case matters ("ant" before "Zoo")
C9_Witness ==
  /\ response.status = 200
  /\ Len(response.matches) = 3
  /\ response.matches[1].score = 7
  /\ response.matches[2].score = 4
  /\ response.matches[3].score = 4
  /\ StrLess(response.matches[3].title, response.matches[2].title)

\* the terms a vocabulary file holds: its items as text, trimmed, blanks out
VocabularyTerms(file) ==
  LET items == file.data.v
      texts == [i \in 1..Len(items) |-> Strip(PyStr(items[i]))]
  IN  Pick(texts, {i \in 1..Len(texts) : texts[i] # <<>>})

IntentOf(list, vocabulary) ==
  /\ \A i, j \in 1..Len(list) : i # j => list[i] # list[j]
  /\ {list[i] : i \in 1..Len(list)}
       = {vocabulary[k] : k \in {k \in 1..Len(vocabulary) :
             IsSubstr(Lower(vocabulary[k]), Lower(request.query))}}
  /\ \A i, j \in 1..Len(list) :
       i < j =>
         \E k \in 1..Len(vocabulary) :
           /\ vocabulary[k] = list[i]
           /\ \A m \in 1..k : vocabulary[m] # list[j]

ArtOnlyVocabulary == FileJson(JList(<<JStr(tArt)>>))

VocabularyChoices ==
  { <<SkillsVocabulary, InterestsVocabulary>>,
    <<ArtOnlyVocabulary, InterestsVocabulary>>,
    <<FileBlank, InterestsVocabulary>>,
    <<SkillsVocabulary, FileBlank>>,
    <<FileUnparsable, InterestsVocabulary>>,
    <<SkillsVocabulary, FileUnparsable>> }

MaxVocabRaw == 1    \* raw files submitted in a run over these vocabularies

VocabQueries == { <<"d", "o", "g", " ", "c", "a", "t", "s">> }
VocabLimits  == { JNull }

InitVocab ==
  /\ rawFiles = EmptyDir
  /\ outFiles = EmptyDir
  /\ skillIdxFile = NoIndexFile
  /\ interestIdxFile = NoIndexFile
  /\ \E files \in VocabularyChoices :
       /\ skillsFile = files[1]
       /\ interestsFile = files[2]
  /\ pc = "idle"
  /\ txt_files = <<>>
  /\ skills = <<>>
  /\ interests = <<>>
  /\ built = NoIndexes
  /\ calls = {}
  /\ written = {}
  /\ stale = {}
  /\ rebuilt = {}
  /\ processed = {}
  /\ edits = 0
  /\ state = NoState
  /\ request = NoRequest
  /\ response = NoResponse
  /\ handlers = NoHandlers

\* between two batches the vocabulary files are replaced
replace_vocabulary(files) ==
  /\ pc \in AtRest
  /\ edits < MaxEdits
  /\ <<skillsFile, interestsFile>> # files
  /\ skillsFile' = files[1]
  /\ interestsFile' = files[2]
  /\ edits' = edits + 1
  /\ pc' = "idle"
  /\ calls' = {} /\ written' = {} /\ stale' = {} /\ rebuilt' = {}
  /\ UNCHANGED <<storeVars, txt_files, skills, interests, built, processed,
                 state, request, response, handlers>>

NextVocab ==
  \/ run_batch
  \/ \E title \in Titles, description \in Descriptions :
       /\ Cardinality(DOMAIN rawFiles) < MaxVocabRaw
       /\ add_opportunity(title, description)
  \/ process_item
  \/ build_indexes
  \/ write_skill_index
  \/ write_interest_index
  \/ \E files \in VocabularyChoices : replace_vocabulary(files)
  \/ \E query \in VocabQueries, limit \in VocabLimits :
       find_opportunity_post(query, limit)
  \/ send_response

SpecVocab == InitVocab /\ [][NextVocab]_vars

\* a step that loads the vocabularies for ingestion, and one that loads them
\* for a query
StartsBatch ==
  \/ run_batch
  \/ \E title \in Titles, description \in Descriptions :
       add_opportunity(title, description)
Asks == \E query \in VocabQueries, limit \in VocabLimits :
          find_opportunity_post(query, limit)

\* both vocabulary files exist, and one of them is of the kinds given
SomeFileIs(kinds) ==
  /\ skillsFile.kind # "missing" /\ interestsFile.kind # "missing"
  /\ skillsFile.kind \in kinds \/ interestsFile.kind \in kinds

\* the query went on with no terms of the files of the kinds given
QueryTakesEmpty(kinds) ==
  /\ response'.status = 200
  /\ skillsFile.kind \in kinds => response'.intent.skills = <<>>
  /\ interestsFile.kind \in kinds => response'.intent.interests = <<>>

\* the batch went on with no terms of the files of the kinds given
BatchTakesEmpty(kinds) ==
  /\ pc' \in {"loop", "nothing"}
  /\ (pc' = "loop" /\ skillsFile.kind \in kinds) => skills' = <<>>
  /\ (pc' = "loop" /\ interestsFile.kind \in kinds) => interests' = <<>>

\* C13 as stated: a vocabulary file that exists and is empty or not
\* parsable is loaded as the empty list and raises nothing, by the loader of
\* the ingestion and by the loader of the queries: batch and query go on.
C13_DegenerateVocabulary ==
  [][/\ (StartsBatch /\ SomeFileIs({"blank", "unparsable"}))
          => BatchTakesEmpty({"blank", "unparsable"})
     /\ (Asks /\ SomeFileIs({"blank", "unparsable"}))
          => QueryTakesEmpty({"blank", "unparsable"})]_vars

\* C13, amended: an empty file is loaded as the empty list by both loaders;
\* a file that is not parsable is loaded as the empty list by the loader of
\* the queries, and makes the loader of the ingestion raise: the batch ends
\* before any item.
C13_BlankOrUnparsableVocabulary ==
  [][/\ (StartsBatch /\ SomeFileIs({"unparsable"})) => pc' = "config_error"
     /\ (StartsBatch /\ SomeFileIs({"blank"}) /\ ~SomeFileIs({"unparsable"}))
          => BatchTakesEmpty({"blank"})
     /\ (Asks /\ SomeFileIs({"blank", "unparsable"}))
          => QueryTakesEmpty({"blank", "unparsable"})]_vars

\* a batch has ended on the interests file that is not JSON, and a query over
\* the same files has been answered with no interest term
C13_Witness ==
  /\ pc = "config_error"
  /\ interestsFile = FileUnparsable
  /\ response.status = 200
  /\ response.intent.skills # <<>>
  /\ response.intent.interests = <<>>

\* the keys of an index file are terms of the vocabulary file
KeysWithin(index_file, vocabulary_file) ==
  \A term \in IndexTerms(load_index(index_file)) :
    InSeq(term, load_reference_list(vocabulary_file).list)

\* C17: after every completed batch, whatever batches and replacements of
\* the vocabulary files came before it, every key of the skill index is a
\* term of the skills vocabulary the batch loaded, and every key of the
\* interest index a term of the interests vocabulary it loaded.
C17_ControlledIndex ==
  pc = "done" =>
    /\ KeysWithin(skillIdxFile, skillsFile)
    /\ KeysWithin(interestIdxFile, interestsFile)

(***************************************************************************)
(* Submissions handled side by side: save_raw_opportunity step by step.    *)
(* The pipeline run that follows the write reads the raw directory and     *)
(* writes none of its files; it is left out here.                          *)
(***************************************************************************)

SubmitDescriptions == { <<"d", "o", "g", "s", " ">>, <<"c", "a", "t", "s">> }

InitSubmit ==
  /\ rawFiles = EmptyDir
  /\ outFiles = EmptyDir
  /\ skillIdxFile = NoIndexFile
  /\ interestIdxFile = NoIndexFile
  /\ skillsFile = SkillsVocabulary
  /\ interestsFile = InterestsVocabulary
  /\ pc = "idle"
  /\ txt_files = <<>>
  /\ skills = <<>>
  /\ interests = <<>>
  /\ built = NoIndexes
  /\ calls = {}
  /\ written = {}
  /\ stale = {}
  /\ rebuilt = {}
  /\ processed = {}
  /\ edits = 0
  /\ state = NoState
  /\ request = NoRequest
  /\ response = NoResponse
  /\ handlers = NoHandlers

submitFrame ==
  <<outFiles, skillIdxFile, interestIdxFile, vocabVars, batchVars, traceVars,
    state, request, response>>

\* add_opportunity up to ensure_unique_raw_path: the handler has validated
\* the fields and holds the path the existence checks gave it
submit_pick(h, title, description) ==
  /\ handlers[h] = NoFrame
  /\ Strip(title) # <<>>
  /\ Strip(description) # <<>>
  /\ Cardinality(DOMAIN rawFiles) < MaxRaw
  /\ handlers' =
       [handlers EXCEPT ![h] =
          [op          |-> "add",
           at          |-> "write",
           title       |-> Strip(title),
           description |-> Strip(description),
           path        |-> ensure_unique_raw_path(slugify_filename(Strip(title)),
                                                  DOMAIN rawFiles)]]
  /\ UNCHANGED <<rawFiles, submitFrame>>

\* path.write_text(description.strip() + "\n"): creates or overwrites
submit_write(h) ==
  /\ handlers[h].op = "add"
  /\ handlers[h].at = "write"
  /\ rawFiles' = [s \in DOMAIN rawFiles \cup {handlers[h].path} |->
                    IF s = handlers[h].path
                      THEN Strip(handlers[h].description) \o <<"\n">>
                      ELSE rawFiles[s]]
  /\ handlers' = [handlers EXCEPT ![h].at = "saved"]
  /\ UNCHANGED submitFrame

\* the handler answers; it is free for the next request
submit_respond(h) ==
  /\ handlers[h].op = "add"
  /\ handlers[h].at = "saved"
  /\ handlers' = [handlers EXCEPT ![h] = NoFrame]
  /\ UNCHANGED <<rawFiles, submitFrame>>

NextSubmit ==
  \/ \E h \in Handlers, title \in Titles, description \in SubmitDescriptions :
       submit_pick(h, title, description)
  \/ \E h \in Handlers : submit_write(h)
  \/ \E h \in Handlers : submit_respond(h)

SpecSubmit == InitSubmit /\ [][NextSubmit]_vars

\* C18: two submissions handled side by side whose titles give the same slug
\* are written to two distinct raw paths, and the file of each holds its own
\* text, however the existence checks and the writes interleave.
C18_DistinctRawPaths ==
  \A h1, h2 \in Handlers :
    ( /\ h1 # h2
      /\ handlers[h1].op = "add" /\ handlers[h1].at = "saved"
      /\ handlers[h2].op = "add" /\ handlers[h2].at = "saved"
      /\ slugify_filename(handlers[h1].title) = slugify_filename(handlers[h2].title) )
    => /\ handlers[h1].path # handlers[h2].path
       /\ rawFiles[handlers[h1].path] = handlers[h1].description \o <<"\n">>
       /\ rawFiles[handlers[h2].path] = handlers[h2].description \o <<"\n">>

(***************************************************************************)
(* Queries handled while a batch runs: find_opportunity step by step, its  *)
(* two index files read one after the other                                *)
(***************************************************************************)

\* the record an earlier batch left, and the raw input that has come since
OldStem   == DocStem(1)
NewStem   == <<"d", "o", "g">>
NewText   == <<"d", "o", "g", "s", "\n">>
LiveQueries == { <<"d", "o", "g", " ", "c", "a", "t", "s">> }
LiveLimits  == { JNull }

InitLive ==
  \E payload \in DocPayloads :
    LET sk  == load_reference_list(SkillsVocabulary).list
        in  == load_reference_list(InterestsVocabulary).list
        out == [s \in {OldStem} |-> DocRecord(1, payload, sk, in)]
        indexes == build_indexes_from_outputs(out, <<OldStem>>)
    IN  /\ rawFiles = [s \in {OldStem, NewStem} |->
                         IF s = OldStem THEN DocText(1) ELSE NewText]
        /\ outFiles = out
        /\ skillIdxFile = write_index_file("skills", indexes.skills)
        /\ interestIdxFile = write_index_file("interests", indexes.interests)
        /\ skillsFile = SkillsVocabulary
        /\ interestsFile = InterestsVocabulary
        /\ pc = "done"
        /\ txt_files = <<>>
        /\ skills = <<>>
        /\ interests = <<>>
        /\ built = NoIndexes
        /\ calls = {OldStem}
        /\ written = {OldStem}
        /\ stale = {OldStem}
        /\ rebuilt = {"skills", "interests"}
        /\ processed = {OldStem}
        /\ edits = 0
        /\ state = NoState
        /\ request = NoRequest
        /\ response = NoResponse
        /\ handlers = NoHandlers

liveFrame ==
  <<storeVars, vocabVars, batchVars, traceVars, state, request, response>>

\* find_opportunity down to the first load_index of consolidate_matches: the
\* handler holds the skill index it has read
find_read_skill(h, query, limit) ==
  /\ handlers[h] = NoFrame
  /\ Strip(query) # <<>>
  /\ handlers' = [handlers EXCEPT ![h] =
                    [op |-> "find", at |-> "interest", query |-> query,
                     limit |-> limit, skill_file |-> skillIdxFile]]
  /\ UNCHANGED liveFrame

\* the second load_index and the rest of the handler
find_read_interest(h) ==
  /\ handlers[h].op = "find"
  /\ handlers[h].at = "interest"
  /\ handlers' = [handlers EXCEPT ![h] =
                    [op |-> "find", at |-> "answered",
                     query |-> handlers[h].query,
                     limit |-> handlers[h].limit,
                     skill_file |-> handlers[h].skill_file,
                     interest_file |-> interestIdxFile,
                     response |-> find_opportunity(handlers[h].query, handlers[h].limit,
                                                   skillsFile, interestsFile,
                                                   handlers[h].skill_file,
                                                   interestIdxFile, outFiles)]]
  /\ UNCHANGED liveFrame

\* the response goes out; the handler is free for the next request
find_respond(h) ==
  /\ handlers[h].op = "find"
  /\ handlers[h].at = "answered"
  /\ handlers' = [handlers EXCEPT ![h] = NoFrame]
  /\ UNCHANGED liveFrame

NextLive ==
  \/ run_batch
  \/ process_item
  \/ build_indexes
  \/ write_skill_index
  \/ write_interest_index
  \/ \E h \in Handlers, query \in LiveQueries, limit \in LiveLimits :
       find_read_skill(h, query, limit)
  \/ \E h \in Handlers : find_read_interest(h)
  \/ \E h \in Handlers : find_respond(h)

SpecLive == InitLive /\ [][NextLive]_vars

\* the two files are the complete index of the store as it was before the
\* new record, or as it is with it
CompleteIndex(skill_file, interest_file) ==
  \E stems \in {{OldStem}, DOMAIN outFiles} :
    LET out == [s \in stems |-> outFiles[s]]
    IN  \E scan \in ScanOrders(out) :
          /\ skill_file = write_index_file("skills", build_index(out, scan, "skills"))
          /\ interest_file
               = write_index_file("interests", build_index(out, scan, "interests"))

\* C15: a query handled while a batch runs never sees a partly rebuilt
\* index: the skill index and the interest index it has read are the
\* complete index from before the rebuild or the complete one after it.
C15_NoPartialIndex ==
  \A h \in Handlers :
    (handlers[h].op = "find" /\ handlers[h].at = "answered") =>
      CompleteIndex(handlers[h].skill_file, handlers[h].interest_file)

=============================================================================
